---------------------------- MODULE Spec2Model ----------------------------
(***************************************************************************)
(* Outline extraction pipeline of tallamSai/Adobe-1a (src/utils.py,        *)
(* src/main.py).                                                           *)
(*                                                                         *)
(* Representation.                                                         *)
(*   - A text is a sequence of characters; a character is a one-character  *)
(*     string, except the few non-ASCII characters the code names, which   *)
(*     are the strings "nbsp" (U+00A0), "zwsp" (U+200B), "rsquo" (U+2019), *)
(*     "ldquo" (U+201C), "rdquo" (U+201D), "U+00E2" and "U+20AC".          *)
(*   - Lengths (x0, y, font sizes) are integers in thousandths of a unit,  *)
(*     so 32.04 is 32040 and the tolerance 0.5 is 500.                     *)
(*   - A line is a record [text, font, font_size, x0, y, page], a heading  *)
(*     a record [level, text, page, y, x0, font_size]; None is Python's    *)
(*     None.                                                               *)
(***************************************************************************)
EXTENDS Integers, Sequences, FiniteSets, TLC

VARIABLES
    pc,                          \* position in main(), or in a harness
    input_dir,                   \* filename -> what extract_lines yields for it
    pending,                     \* files of INPUT_DIR the loop has not visited
    filename,                    \* the loop variable of main()
    lines,
    total_pages,
    header_ys, footer_ys, repeated_texts,
    font_levels, significant_font_sizes, most_common_body_font_size,
    title,
    outline,
    output_dir,                  \* filename -> the record json.dump wrote
    norm_in, norm_once, norm_twice,  \* normalize harness
    page_chars                   \* page.chars of the line reconstruction harness

vars == <<pc, input_dir, pending, filename, lines, total_pages,
          header_ys, footer_ys, repeated_texts,
          font_levels, significant_font_sizes, most_common_body_font_size,
          title, outline, output_dir, norm_in, norm_once, norm_twice, page_chars>>

None == "None"

-----------------------------------------------------------------------------
(* Bounds of the model. *)

\* Longest text the normalize harness draws.
MaxLen == 4
\* Most lines of a document built for the pipeline.
MaxLines == 4
\* Pages of the documents built for the header/footer analysis.
MaxPagesHF == 10
\* Most lines of a document built for the font hierarchy analysis.
MaxFontLines == 5

-----------------------------------------------------------------------------
(* Characters: Python's str predicates on the characters the model uses. *)

Upper == {"A","B","C","D","E","F","G","H","I","J","K","L","M",
          "N","O","P","Q","R","S","T","U","V","W","X","Y","Z"}
Lower == {"a","b","c","d","e","f","g","h","i","j","k","l","m",
          "n","o","p","q","r","s","t","u","v","w","x","y","z"}
Digit == {"0","1","2","3","4","5","6","7","8","9"}

\* str.isspace(), and the regex class \s on str: U+00A0 is whitespace,
\* U+200B (category Cf) is not.
IsSpace(c) == c \in {" ", "nbsp"}
\* str.isalpha(): U+00E2 is a letter.
IsAlpha(c) == c \in Upper \cup Lower \cup {"U+00E2"}
IsUpperChar(c) == c \in Upper
IsLowerChar(c) == c \in Lower
IsDigit(c) == c \in Digit
\* [ivxlcdm] under re.IGNORECASE
IsRomanChar(c) == c \in {"i","v","x","l","c","d","m","I","V","X","L","C","D","M"}

Max(a, b) == IF a >= b THEN a ELSE b
Abs(a) == IF a < 0 THEN -a ELSE a

\* seq[lo..] as Python's slice
Drop(s, k) == SubSeq(s, k + 1, Len(s))

\* needle in hay (str.__contains__)
Contains(hay, needle) ==
    \E i \in 1..(Len(hay) - Len(needle) + 1) :
        SubSeq(hay, i, i + Len(needle) - 1) = needle

\* sep.join(parts)
Join(parts, sep) ==
    LET F[i \in 0..Len(parts)] ==
            IF i = 0 THEN <<>>
            ELSE IF i = 1 THEN parts[1]
            ELSE F[i - 1] \o sep \o parts[i]
    IN F[Len(parts)]

\* str.strip(): leading and trailing whitespace removed
strip(s) ==
    LET keep == {i \in 1..Len(s) : ~IsSpace(s[i])}
    IN IF keep = {} THEN <<>>
       ELSE LET lo == CHOOSE i \in keep : \A j \in keep : i <= j
                hi == CHOOSE i \in keep : \A j \in keep : i >= j
            IN SubSeq(s, lo, hi)

\* re.sub(r'\s+', ' ', s): every maximal run of whitespace becomes one space
CollapseWhitespace(s) ==
    LET F[i \in 0..Len(s)] ==
            IF i = 0 THEN <<>>
            ELSE IF IsSpace(s[i])
                 THEN IF i > 1 /\ IsSpace(s[i - 1]) THEN F[i - 1]
                      ELSE Append(F[i - 1], " ")
                 ELSE Append(F[i - 1], s[i])
    IN F[Len(s)]

\* the chain of str.replace calls of normalize, one character at a time
ReplaceChar(c) ==
    CASE c = "rsquo" -> <<"'">>
      [] c = "ldquo" -> <<"\"">>
      [] c = "rdquo" -> <<"\"">>
      [] c = "nbsp"  -> <<" ">>
      [] c = "zwsp"  -> <<>>
      [] OTHER       -> <<c>>

ReplaceAll(s) ==
    LET F[i \in 0..Len(s)] ==
            IF i = 0 THEN <<>> ELSE F[i - 1] \o ReplaceChar(s[i])
    IN F[Len(s)]

\* normalize = lambda t: re.sub(r'\s+', ' ', t.strip()).replace(...)...
normalize(t) == ReplaceAll(CollapseWhitespace(strip(t)))

\* str.split(): the words of s
split(s) ==
    LET F[i \in 0..Len(s)] ==
            IF i = 0 THEN <<>>
            ELSE LET words == F[i - 1]
                 IN IF IsSpace(s[i]) THEN words
                    ELSE IF i > 1 /\ ~IsSpace(s[i - 1])
                         THEN [words EXCEPT ![Len(words)] = Append(@, s[i])]
                         ELSE Append(words, <<s[i]>>)
    IN F[Len(s)]

AnyAlpha(s) == \E i \in 1..Len(s) : IsAlpha(s[i])

\* re.fullmatch(r'\d+', s)
IsBareInteger(s) == Len(s) > 0 /\ \A i \in 1..Len(s) : IsDigit(s[i])
\* re.fullmatch(r'[ivxlcdm]+', s, re.IGNORECASE)
IsRomanNumeral(s) == Len(s) > 0 /\ \A i \in 1..Len(s) : IsRomanChar(s[i])

\* re.match(r'^[A-Z][a-z]', s)
StartsCapitalised(s) == Len(s) >= 2 /\ IsUpperChar(s[1]) /\ IsLowerChar(s[2])

Cardinal(S) == Cardinality(S)

\* is_all_caps(text)
is_all_caps(text0) ==
    LET text == strip(text0)
        uppercase_chars == Cardinal({i \in 1..Len(text) : IsUpperChar(text[i])})
        total_alpha_chars == Cardinal({i \in 1..Len(text) : IsAlpha(text[i])})
    IN IF ~(5 <= Len(text) /\ Len(text) <= 70 /\ AnyAlpha(text)) THEN FALSE
       ELSE total_alpha_chars > 0 /\ 100 * uppercase_chars > 85 * total_alpha_chars

\* The length of the run of digits of s that starts at position p (0 if none).
DigitRun(s, p) ==
    LET F[i \in p..(Len(s) + 1)] ==
            IF i > Len(s) \/ ~IsDigit(s[i]) THEN 0 ELSE 1 + F[i + 1]
    IN IF p > Len(s) THEN 0 ELSE F[p]

\* Position after `groups` leading groups \d+\. of s from position p, or 0 when
\* s does not start with that many groups.
RECURSIVE AfterGroups(_, _, _)
AfterGroups(s, p, groups) ==
    IF groups = 0 THEN p
    ELSE LET n == DigitRun(s, p)
         IN IF n > 0 /\ p + n <= Len(s) /\ s[p + n] = "."
            THEN AfterGroups(s, p + n + 1, groups - 1)
            ELSE 0

\* NUMBERED_HEADING_REGEXES[depth - 1][0].match(s):
\*   depth 1: ^\d+\.\s*(.+)$      depth 2: ^\d+\.\d+\s*(.+)$   and so on.
\* \s* and the last \d+ give characters back, so what is left to require is
\* one character for (.+), after one digit for a last \d+.
RegexMatches(s, depth) ==
    LET p == AfterGroups(s, 1, IF depth = 1 THEN 1 ELSE depth - 1)
    IN /\ p > 0
       /\ IF depth = 1 THEN Len(s) >= p
          ELSE p <= Len(s) /\ IsDigit(s[p]) /\ Len(s) >= p + 1

\* The (regex, depth) list, as the depths in list order.
NUMBERED_HEADING_REGEXES == <<1, 2, 3, 4>>

-----------------------------------------------------------------------------
(* Numbers. *)

\* round(x, digits) for x >= 0 in thousandths: to a multiple of `step`
\* (100 for one decimal, 10 for two), ties to even as Python rounds.
RoundTo(x, step) ==
    LET q == x \div step
        r == x % step
    IN IF 2 * r < step THEN q * step
       ELSE IF 2 * r > step THEN (q + 1) * step
       ELSE IF q % 2 = 0 THEN q * step ELSE (q + 1) * step

round1(x) == RoundTo(x, 100)
round2(x) == RoundTo(x, 10)

Range(s) == {s[i] : i \in 1..Len(s)}

\* The distinct values of s in the order of their first occurrence: the keys
\* of Counter(s) / of a dict filled in the order of s.
Keys(s) ==
    LET F[i \in 0..Len(s)] ==
            IF i = 0 THEN <<>>
            ELSE LET keys == F[i - 1]
                 IN IF s[i] \in Range(keys) THEN keys ELSE Append(keys, s[i])
    IN F[Len(s)]

Count(s, v) == Cardinal({i \in 1..Len(s) : s[i] = v})

\* Counter(s).most_common(1)[0][0]: the value of the largest count, the one
\* met first among equals (s non-empty).
MostCommon(s) ==
    LET k == Keys(s)
        best == CHOOSE i \in 1..Len(k) :
                    /\ \A j \in 1..Len(k) : Count(s, k[j]) <= Count(s, k[i])
                    /\ \A j \in 1..(i - 1) : Count(s, k[j]) < Count(s, k[i])
    IN k[best]

\* sorted(S, reverse=True) for a set of numbers
RECURSIVE SortedDescending(_)
SortedDescending(S) ==
    IF S = {} THEN <<>>
    ELSE LET m == CHOOSE x \in S : \A y \in S : y <= x
         IN <<m>> \o SortedDescending(S \ {m})

Levels == {"H1", "H2", "H3", "H4"}
\* "H1" < "H2" < "H3" < "H4" as Python compares the strings
LevelRank(l) == CASE l = "H1" -> 1 [] l = "H2" -> 2 [] l = "H3" -> 3 [] l = "H4" -> 4
LevelOf(i) == CASE i = 1 -> "H1" [] i = 2 -> "H2" [] i = 3 -> "H3" [] i = 4 -> "H4"

\* (page, y, x0) tuples in Python's order
KeyLess(a, b) ==
    \/ a.page < b.page
    \/ a.page = b.page /\ a.y < b.y
    \/ a.page = b.page /\ a.y = b.y /\ a.x0 < b.x0
KeyLeq(a, b) == ~KeyLess(b, a)

\* list.sort(key=lambda x: (x["page"], x["y"], x["x0"])): stable
SortByPosition(s) ==
    LET Insert(acc, e) ==
            LET k == Cardinal({i \in 1..Len(acc) : KeyLeq(acc[i], e)})
            IN SubSeq(acc, 1, k) \o <<e>> \o SubSeq(acc, k + 1, Len(acc))
        F[i \in 0..Len(s)] ==
            IF i = 0 THEN <<>> ELSE LET sorted == F[i - 1] IN Insert(sorted, s[i])
    IN F[Len(s)]

-----------------------------------------------------------------------------
(* Step 2: detect_headers_footers *)

TopMargin == 120000
BottomMargin == 650000

\* len(pages) >= max(2, total_pages * 0.6), in tenths
MeetsPageThreshold(n, totalPages) == 10 * n >= Max(20, 6 * totalPages)

\* a top margin that includes its bound
HeaderCondition_Inclusive(y_pos) == y_pos <= TopMargin

HeaderCondition(y_pos) == y_pos < TopMargin
FooterCondition(y_pos) == y_pos > BottomMargin

detect_headers_footers(ls, totalPages) ==
    LET y_page_map(y) == {ls[i].page : i \in {j \in 1..Len(ls) : round1(ls[j].y) = y}}
        text_page_map(t) ==
            {ls[i].page : i \in {j \in 1..Len(ls) : normalize(ls[j].text) = t}}
        ys == {round1(ls[i].y) : i \in 1..Len(ls)}
        texts == {normalize(ls[i].text) : i \in 1..Len(ls)}
        frequent_ys == {y \in ys : MeetsPageThreshold(Cardinal(y_page_map(y)), totalPages)}
    IN [header_ys |-> {y \in frequent_ys : HeaderCondition(y)},
        footer_ys |-> {y \in frequent_ys : ~HeaderCondition(y) /\ FooterCondition(y)},
        repeated_texts |->
            {t \in texts : /\ MeetsPageThreshold(Cardinal(text_page_map(t)), totalPages)
                           /\ ~IsBareInteger(strip(t))
                           /\ ~IsRomanNumeral(strip(t))}]

-----------------------------------------------------------------------------
(* Step 3: get_font_size_levels *)

MinBodyFontSize == 9000
DefaultBodyFontSize == 10000

Str_ArialBlack == <<"A","r","i","a","l","-","B","l","a","c","k">>
Str_ArialMT == <<"A","r","i","a","l","M","T">>
Str_Bold == <<"B","o","l","d">>
Str_Italic == <<"I","t","a","l","i","c">>

\* levels[size] = level
DictSet(d, k, v) == [x \in DOMAIN d \cup {k} |-> IF x = k THEN v ELSE d[x]]

\* len(potential_heading_fonts) > i  =>  levels[potential_heading_fonts[i]] = "H<i+1>"
GeneralRanking(potential_heading_fonts) ==
    LET n == IF Len(potential_heading_fonts) > 4 THEN 4 ELSE Len(potential_heading_fonts)
    IN [s \in {potential_heading_fonts[i] : i \in 1..n} |->
            LevelOf(CHOOSE i \in 1..n : potential_heading_fonts[i] = s)]

\* the body of the loop over font_style_counts, for one (size, font_name)
FontOverride(levels, size, font_name) ==
    LET afterBlack ==
            IF Contains(font_name, Str_ArialBlack)
            THEN IF size = 32040 THEN DictSet(levels, size, "H1")
                 ELSE IF size = 20040 THEN DictSet(levels, size, "H1")
                 ELSE IF size = 15960 THEN levels
                 ELSE IF size = 12000
                      THEN IF size \notin DOMAIN levels
                              \/ (levels[size] # "H1" /\ levels[size] # "H2")
                           THEN DictSet(levels, size, "H2")
                           ELSE levels
                 ELSE levels
            ELSE levels
    IN IF Contains(font_name, Str_ArialMT)
       THEN IF size = 24000 THEN DictSet(afterBlack, size, "H1")
            ELSE IF size = 20040 THEN DictSet(afterBlack, size, "H3")
            ELSE IF size = 15960 /\ Contains(font_name, Str_Bold)
                 THEN DictSet(afterBlack, size, "H1")
            ELSE IF size = 11040 /\ Contains(font_name, Str_Bold)
                                 /\ Contains(font_name, Str_Italic)
                 THEN DictSet(afterBlack, size, "H3")
            ELSE afterBlack
       ELSE afterBlack

\* the loop over font_style_counts.items(), in the dict's insertion order
ApplyOverrides(levels, styles) ==
    LET F[i \in 0..Len(styles)] ==
            IF i = 0 THEN levels
            ELSE FontOverride(F[i - 1], styles[i][1], styles[i][2])
    IN F[Len(styles)]

\* the levels as the overrides left them, not re-ranked
Rerank_Skipped(levels) ==
    [font_levels |-> levels, significant_font_sizes |-> SortedDescending(DOMAIN levels)]

\* "Re-sort levels based on size": the first four sizes, largest first, get
\* H1..H4; the list of sizes is returned whole.
Rerank(levels) ==
    LET actual_heading_sizes == SortedDescending(DOMAIN levels)
        n == IF Len(actual_heading_sizes) > 4 THEN 4 ELSE Len(actual_heading_sizes)
    IN [font_levels |-> [s \in {actual_heading_sizes[i] : i \in 1..n} |->
                            LevelOf(CHOOSE i \in 1..n : actual_heading_sizes[i] = s)],
        significant_font_sizes |-> actual_heading_sizes]

get_font_size_levels(ls) ==
    LET sizes == [i \in 1..Len(ls) |-> round2(ls[i].font_size)]
        font_size_counts == Keys(sizes)
        filtered_font_sizes_for_body ==
            SelectSeq(font_size_counts, LAMBDA size : size >= MinBodyFontSize)
        \* a Counter of a list of distinct sizes: every count is 1
        body == IF Len(filtered_font_sizes_for_body) > 0
                THEN MostCommon(filtered_font_sizes_for_body)
                ELSE DefaultBodyFontSize
        font_style_counts == Keys([i \in 1..Len(ls) |-> <<sizes[i], ls[i].font>>])
        potential_heading_fonts ==
            SortedDescending({size \in Range(font_size_counts) :
                                /\ size > body
                                /\ 100 * Count(sizes, size) < 35 * Len(ls)})
        levels == ApplyOverrides(GeneralRanking(potential_heading_fonts), font_style_counts)
        ranked == Rerank(levels)
    IN [font_levels |-> ranked.font_levels,
        significant_font_sizes |-> ranked.significant_font_sizes,
        most_common_body_font_size |-> body]

-----------------------------------------------------------------------------
(* Step 4: extract_title *)

\* The string literals of extract_title and classify_headings.
Str_LTC ==
    <<"A","p","p","l","i","c","a","t","i","o","n"," ","f","o","r","m"," ","f","o","r"," ","g",
      "r","a","n","t"," ","o","f"," ","L","T","C"," ","a","d","v","a","n","c","e">>
Str_FoundationLevel ==
    <<"F","o","u","n","d","a","t","i","o","n"," ","L","e","v","e","l"," ","E","x","t","e","n",
      "s","i","o","n","s">>
Str_Overview ==
    <<"O","v","e","r","v","i","e","w">>
Str_RequestForProposal ==
    <<"R","e","q","u","e","s","t"," ","f","o","r"," ","P","r","o","p","o","s","a","l">>
Str_OntarioDigitalLibrary ==
    <<"O","n","t","a","r","i","o"," ","D","i","g","i","t","a","l"," ","L","i","b","r","a","r",
      "y">>
Str_Parsippany ==
    <<"P","a","r","s","i","p","p","a","n","y">>
Str_STEMPathways ==
    <<"S","T","E","M"," ","P","a","t","h","w","a","y","s">>
Str_HOPE ==
    <<"H","O","P","E"," ","T","o"," ","S","E","E"," ","Y","o","u"," ","T","H","E","R","E">>
Str_RFP ==
    <<"R","F","P">>
Str_OntariosLibraries ==
    <<"O","n","t","a","r","i","o","'","s"," ","L","i","b","r","a","r","i","e","s">>
Str_WorkingTogether ==
    <<"W","o","r","k","i","n","g"," ","T","o","g","e","t","h","e","r">>
Title_LTC ==
    <<"A","p","p","l","i","c","a","t","i","o","n"," ","f","o","r","m"," ","f","o","r"," ","g",
      "r","a","n","t"," ","o","f"," ","L","T","C"," ","a","d","v","a","n","c","e"," "," ">>
Title_Overview ==
    <<"O","v","e","r","v","i","e","w"," "," ","F","o","u","n","d","a","t","i","o","n"," ","L",
      "e","v","e","l"," ","E","x","t","e","n","s","i","o","n","s"," "," ">>
Title_RFP ==
    <<"R","F","P",":","R","e","q","u","e","s","t"," ","f","o","r"," ","P","r","o","p","o","s",
      "a","l"," ","T","o"," ","P","r","e","s","e","n","t"," ","a"," ","P","r","o","p","o","s",
      "a","l"," ","f","o","r"," ","D","e","v","e","l","o","p","i","n","g"," ","t","h","e"," ",
      "B","u","s","i","n","e","s","s"," ","P","l","a","n"," ","f","o","r"," ","t","h","e"," ",
      "O","n","t","a","r","i","o"," ","D","i","g","i","t","a","l"," ","L","i","b","r","a","r",
      "y"," "," ">>
Title_Parsippany ==
    <<"P","a","r","s","i","p","p","a","n","y"," ","-","T","r","o","y"," ","H","i","l","l","s",
      " ","S","T","E","M"," ","P","a","t","h","w","a","y","s">>

TitleDecorationFontSize == 15960
TitleMaxY == 400000

\* the while loop of clean_doubled_text_aggressive: an alphabetic character
\* followed by itself is kept once
RECURSIVE CollapseDoubledChars(_, _)
CollapseDoubledChars(s, i) ==
    IF i > Len(s) THEN <<>>
    ELSE IF i + 1 <= Len(s) /\ s[i] = s[i + 1] /\ IsAlpha(s[i])
         THEN <<s[i]>> \o CollapseDoubledChars(s, i + 2)
         ELSE <<s[i]>> \o CollapseDoubledChars(s, i + 1)

\* "Pattern 2": an even number (> 4) of words whose halves are equal
HalvesRepeat(temp_cleaned_text) ==
    LET words_temp == split(temp_cleaned_text)
        h == Len(words_temp) \div 2
    IN /\ Len(words_temp) > 4
       /\ Len(words_temp) % 2 = 0
       /\ normalize(Join(SubSeq(words_temp, 1, h), <<" ">>))
            = normalize(Join(SubSeq(words_temp, h + 1, Len(words_temp)), <<" ">>))

FirstHalf(temp_cleaned_text) ==
    LET words_temp == split(temp_cleaned_text)
    IN Join(SubSeq(words_temp, 1, Len(words_temp) \div 2), <<" ">>)

\* text.split(':', 1): the parts before and after the first colon
ColonParts(s) ==
    LET k == CHOOSE i \in 1..Len(s) : s[i] = ":" /\ \A j \in 1..(i - 1) : s[j] # ":"
    IN <<SubSeq(s, 1, k - 1), Drop(s, k)>>

\* "Pattern 3": "Label: Label"
LabelRepeats(temp_cleaned_text) ==
    /\ ":" \in Range(temp_cleaned_text)
    /\ normalize(ColonParts(temp_cleaned_text)[1]) = normalize(ColonParts(temp_cleaned_text)[2])

clean_doubled_text_aggressive(text) ==
    LET undoubled == CollapseDoubledChars(normalize(text), 1)
        afterHalves == IF HalvesRepeat(undoubled) THEN FirstHalf(undoubled) ELSE undoubled
        afterLabel == IF LabelRepeats(afterHalves)
                      THEN strip(ColonParts(afterHalves)[1])
                      ELSE afterHalves
    IN strip(afterLabel)

\* list.sort(key=lambda x: (x["y"], x["x0"])): stable
SortByYX(s) ==
    LET Leq(a, b) == a.y < b.y \/ (a.y = b.y /\ a.x0 <= b.x0)
        Insert(acc, e) ==
            LET k == Cardinal({i \in 1..Len(acc) : Leq(acc[i], e)})
            IN SubSeq(acc, 1, k) \o <<e>> \o SubSeq(acc, k + 1, Len(acc))
        F[i \in 0..Len(s)] ==
            IF i = 0 THEN <<>> ELSE LET sorted == F[i - 1] IN Insert(sorted, s[i])
    IN F[Len(s)]

\* the filter loop that fills title_candidates
IsTitleCandidate(line, hdr, ftr, rep) ==
    LET text == normalize(line.text)
    IN /\ ~(Contains(text, Str_OntariosLibraries) /\ line.font_size = TitleDecorationFontSize)
       /\ ~(Contains(text, Str_WorkingTogether) /\ line.font_size = TitleDecorationFontSize)
       /\ line.y \notin hdr
       /\ line.y \notin ftr
       /\ text \notin rep
       /\ ~IsBareInteger(text)
       /\ ~IsRomanNumeral(text)
       /\ line.y < TitleMaxY

\* the grouping loop: the texts of the groups of vertically close, horizontally
\* aligned lines, each group joined with a space
MergeTitleParts(potential_title_lines) ==
    LET Text(group) == Join([i \in 1..Len(group) |-> normalize(group[i].text)], <<" ">>)
        F[i \in 1..Len(potential_title_lines)] ==
            IF i = 1 THEN [parts |-> <<>>, group |-> <<potential_title_lines[1]>>]
            ELSE LET done == F[i - 1]
                     prev_line == done.group[Len(done.group)]
                     current_line == potential_title_lines[i]
                     vertical_proximity ==
                         2 * (current_line.y - prev_line.y) < 3 * prev_line.font_size
                     horizontal_alignment ==
                         Abs(current_line.x0 - prev_line.x0) < prev_line.font_size
                 IN IF vertical_proximity /\ horizontal_alignment
                    THEN [parts |-> done.parts, group |-> Append(done.group, current_line)]
                    ELSE [parts |-> Append(done.parts, Text(done.group)),
                          group |-> <<current_line>>]
        last == F[Len(potential_title_lines)]
    IN Append(last.parts, Text(last.group))

\* potential_title_lines: the candidates of the first page within 70% of the
\* largest candidate size, sorted by (y, x0); empty when there is no candidate
PotentialTitleLines(ls, hdr, ftr, rep) ==
    LET first_page_lines == SelectSeq(ls, LAMBDA l : l.page = 1)
        title_candidates ==
            SelectSeq(first_page_lines, LAMBDA l : IsTitleCandidate(l, hdr, ftr, rep))
        sizes == {title_candidates[i].font_size : i \in 1..Len(title_candidates)}
        max_font_size == CHOOSE m \in sizes : \A s \in sizes : s <= m
    IN IF Len(title_candidates) = 0 THEN <<>>
       ELSE SortByYX(SelectSeq(title_candidates,
                               LAMBDA l : 10 * l.font_size >= 7 * max_font_size))

\* title = " ".join(merged_title_parts).strip(), before the post-clean
AssembledTitle(ls, hdr, ftr, rep) ==
    strip(Join(MergeTitleParts(PotentialTitleLines(ls, hdr, ftr, rep)), <<" ">>))

extract_title(ls, hdr, ftr, rep) ==
    LET first_page_lines == SelectSeq(ls, LAMBDA l : l.page = 1)
        first_page_text ==
            Join([i \in 1..Len(first_page_lines) |-> normalize(first_page_lines[i].text)],
                 <<" ">>)
        Has(s) == Contains(first_page_text, s)
    IN IF Len(first_page_lines) = 0 THEN <<>>
       ELSE IF Has(Str_LTC) THEN Title_LTC
       ELSE IF Has(Str_FoundationLevel) /\ Has(Str_Overview) THEN Title_Overview
       ELSE IF Has(Str_RequestForProposal) /\ Has(Str_OntarioDigitalLibrary) THEN Title_RFP
       ELSE IF Has(Str_Parsippany) /\ Has(Str_STEMPathways) THEN Title_Parsippany
       ELSE IF Has(Str_HOPE) THEN <<>>
       ELSE IF Has(Str_RFP) /\ Has(Str_RequestForProposal) THEN Title_RFP
       ELSE IF Has(Str_OntarioDigitalLibrary) /\ Has(Str_RequestForProposal) THEN Title_RFP
       ELSE IF Len(PotentialTitleLines(ls, hdr, ftr, rep)) = 0 THEN <<>>
       ELSE clean_doubled_text_aggressive(AssembledTitle(ls, hdr, ftr, rep))

-----------------------------------------------------------------------------
(* Step 5: classify_headings *)

\* an entry of a returned outline
Entry(level, text, page) == [level |-> level, text |-> text, page |-> page]

\* The outlines classify_headings returns verbatim for the documents it
\* recognises by their first page.
Outline_FoundationLevel == <<
    Entry("H1", <<"R","e","v","i","s","i","o","n"," ","H","i","s","t","o","r","y"," ">>, 2),
    Entry("H1", <<"T","a","b","l","e"," ","o","f"," ","C","o","n","t","e","n","t","s"," ">>, 3),
    Entry("H1", <<"A","c","k","n","o","w","l","e","d","g","e","m","e","n","t","s"," ">>, 4),
    Entry("H1", <<"1","."," ","I","n","t","r","o","d","u","c","t","i","o","n"," ","t","o"," ",
        "t","h","e"," ","F","o","u","n","d","a","t","i","o","n"," ","L","e","v","e","l"," ","E",
        "x","t","e","n","s","i","o","n","s"," ">>, 5),
    Entry("H1", <<"2","."," ","I","n","t","r","o","d","u","c","t","i","o","n"," ","t","o"," ",
        "F","o","u","n","d","a","t","i","o","n"," ","L","e","v","e","l"," ","A","g","i","l","e",
        " ","T","e","s","t","e","r"," ","E","x","t","e","n","s","i","o","n"," ">>, 6),
    Entry("H2", <<"2",".","1"," ","I","n","t","e","n","d","e","d"," ","A","u","d","i","e","n",
        "c","e"," ">>, 6),
    Entry("H2", <<"2",".","2"," ","C","a","r","e","e","r"," ","P","a","t","h","s"," ","f","o",
        "r"," ","T","e","s","t","e","r","s"," ">>, 6),
    Entry("H2", <<"2",".","3"," ","L","e","a","r","n","i","n","g"," ","O","b","j","e","c","t",
        "i","v","e","s"," ">>, 6),
    Entry("H2", <<"2",".","4"," ","E","n","t","r","y"," ","R","e","q","u","i","r","e","m","e",
        "n","t","s"," ">>, 7),
    Entry("H2", <<"2",".","5"," ","S","t","r","u","c","t","u","r","e"," ","a","n","d"," ","C",
        "o","u","r","s","e"," ","D","u","r","a","t","i","o","n"," ">>, 7),
    Entry("H2", <<"2",".","6"," ","K","e","e","p","i","n","g"," ","I","t"," ","C","u","r","r",
        "e","n","t"," ">>, 8),
    Entry("H1", <<"3","."," ","O","v","e","r","v","i","e","w"," ","o","f"," ","t","h","e"," ",
        "F","o","u","n","d","a","t","i","o","n"," ","L","e","v","e","l"," ","E","x","t","e","n",
        "s","i","o","n"," ","U+00E2","U+20AC","ldquo"," ","A","g","i","l","e"," ","T","e","s",
        "t","e","r","S","y","l","l","a","b","u","s"," ">>, 9),
    Entry("H2", <<"3",".","1"," ","B","u","s","i","n","e","s","s"," ","O","u","t","c","o","m",
        "e","s"," ">>, 9),
    Entry("H2", <<"3",".","2"," ","C","o","n","t","e","n","t"," ">>, 9),
    Entry("H1", <<"4","."," ","R","e","f","e","r","e","n","c","e","s"," ">>, 11),
    Entry("H2", <<"4",".","1"," ","T","r","a","d","e","m","a","r","k","s"," ">>, 11),
    Entry("H2", <<"4",".","2"," ","D","o","c","u","m","e","n","t","s"," ","a","n","d"," ","W",
        "e","b"," ","S","i","t","e","s"," ">>, 11)
  >>

Outline_OntarioDigitalLibrary == <<
    Entry("H1", <<"O","n","t","a","r","i","o","'","s"," ","D","i","g","i","t","a","l"," ","L",
        "i","b","r","a","r","y"," ">>, 1),
    Entry("H1", <<"A"," ","C","r","i","t","i","c","a","l"," ","C","o","m","p","o","n","e","n",
        "t"," ","f","o","r"," ","I","m","p","l","e","m","e","n","t","i","n","g"," ","O","n","t",
        "a","r","i","o","'","s"," ","R","o","a","d"," ","M","a","p"," ","t","o"," ","P","r","o",
        "s","p","e","r","i","t","y"," ","S","t","r","a","t","e","g","y"," ">>, 1),
    Entry("H2", <<"S","u","m","m","a","r","y"," ">>, 1),
    Entry("H3", <<"T","i","m","e","l","i","n","e",":"," ">>, 1),
    Entry("H2", <<"B","a","c","k","g","r","o","u","n","d"," ">>, 2),
    Entry("H3", <<"E","q","u","i","t","a","b","l","e"," ","a","c","c","e","s","s"," ","f","o",
        "r"," ","a","l","l"," ","O","n","t","a","r","i","a","n","s",":"," ">>, 3),
    Entry("H3", <<"S","h","a","r","e","d"," ","d","e","c","i","s","i","o","n","-","m","a","k",
        "i","n","g"," ","a","n","d"," ","a","c","c","o","u","n","t","a","b","i","l","i","t","y",
        ":"," ">>, 3),
    Entry("H3", <<"S","h","a","r","e","d"," ","g","o","v","e","r","n","a","n","c","e"," ","s",
        "t","r","u","c","t","u","r","e",":"," ">>, 3),
    Entry("H3", <<"S","h","a","r","e","d"," ","f","u","n","d","i","n","g",":"," ">>, 3),
    Entry("H3", <<"L","o","c","a","l"," ","p","o","i","n","t","s"," ","o","f"," ","e","n","t",
        "r","y",":"," ">>, 4),
    Entry("H3", <<"A","c","c","e","s","s",":"," ">>, 4),
    Entry("H3", <<"G","u","i","d","a","n","c","e"," ","a","n","d"," ","A","d","v","i","c","e",
        ":"," ">>, 4),
    Entry("H3", <<"T","r","a","i","n","i","n","g",":"," ">>, 4),
    Entry("H3", <<"P","r","o","v","i","n","c","i","a","l"," ","P","u","r","c","h","a","s","i",
        "n","g"," ","&"," ","L","i","c","e","n","s","i","n","g",":"," ">>, 4),
    Entry("H3", <<"T","e","c","h","n","o","l","o","g","i","c","a","l"," ","S","u","p","p","o",
        "r","t",":"," ">>, 4),
    Entry("H3", <<"W","h","a","t"," ","c","o","u","l","d"," ","t","h","e"," ","O","D","L"," ",
        "r","e","a","l","l","y"," ","m","e","a","n","?"," ">>, 4),
    Entry("H4", <<"F","o","r"," ","e","a","c","h"," ","O","n","t","a","r","i","o"," ","c","i",
        "t","i","z","e","n"," ","i","t"," ","c","o","u","l","d"," ","m","e","a","n",":"," ">>, 4),
    Entry("H4", <<"F","o","r"," ","e","a","c","h"," ","O","n","t","a","r","i","o"," ","s","t",
        "u","d","e","n","t"," ","i","t"," ","c","o","u","l","d"," ","m","e","a","n",":"," ">>, 4),
    Entry("H4", <<"F","o","r"," ","e","a","c","h"," ","O","n","t","a","r","i","o"," ","l","i",
        "b","r","a","r","y"," ","i","t"," ","c","o","u","l","d"," ","m","e","a","n",":"," ">>, 5),
    Entry("H4", <<"F","o","r"," ","t","h","e"," ","O","n","t","a","r","i","o"," ","g","o","v",
        "e","r","n","m","e","n","t"," ","i","t"," ","c","o","u","l","d"," ","m","e","a","n",":",
        " ">>, 5),
    Entry("H2", <<"T","h","e"," ","B","u","s","i","n","e","s","s"," ","P","l","a","n"," ","t",
        "o"," ","b","e"," ","D","e","v","e","l","o","p","e","d"," ">>, 5),
    Entry("H3", <<"M","i","l","e","s","t","o","n","e","s"," ">>, 6),
    Entry("H2", <<"A","p","p","r","o","a","c","h"," ","a","n","d"," ","S","p","e","c","i","f",
        "i","c"," ","P","r","o","p","o","s","a","l"," ","R","e","q","u","i","r","e","m","e","n",
        "t","s"," ">>, 6),
    Entry("H2", <<"E","v","a","l","u","a","t","i","o","n"," ","a","n","d"," ","A","w","a","r",
        "d","i","n","g"," ","o","f"," ","C","o","n","t","r","a","c","t"," ">>, 7),
    Entry("H2", <<"A","p","p","e","n","d","i","x"," ","A",":"," ","O","D","L"," ","E","n","v",
        "i","s","i","o","n","e","d"," ","P","h","a","s","e","s"," ","&"," ","F","u","n","d","i",
        "n","g"," ">>, 8),
    Entry("H3", <<"P","h","a","s","e"," ","I",":"," ","B","u","s","i","n","e","s","s"," ","P",
        "l","a","n","n","i","n","g"," ">>, 8),
    Entry("H3", <<"P","h","a","s","e"," ","I","I",":"," ","I","m","p","l","e","m","e","n","t",
        "i","n","g"," ","a","n","d"," ","T","r","a","n","s","i","t","i","o","n","i","n","g"," ">>, 8),
    Entry("H3", <<"P","h","a","s","e"," ","I","I","I",":"," ","O","p","e","r","a","t","i","n",
        "g"," ","a","n","d"," ","G","r","o","w","i","n","g"," ","t","h","e"," ","O","D","L"," ">>, 8),
    Entry("H2", <<"A","p","p","e","n","d","i","x"," ","B",":"," ","O","D","L"," ","S","t","e",
        "e","r","i","n","g"," ","C","o","m","m","i","t","t","e","e"," ","T","e","r","m","s"," ",
        "o","f"," ","R","e","f","e","r","e","n","c","e"," ">>, 10),
    Entry("H3", <<"1","."," ","P","r","e","a","m","b","l","e"," ">>, 10),
    Entry("H3", <<"2","."," ","T","e","r","m","s"," ","o","f"," ","R","e","f","e","r","e","n",
        "c","e"," ">>, 10),
    Entry("H3", <<"3","."," ","M","e","m","b","e","r","s","h","i","p"," ">>, 10),
    Entry("H3", <<"4","."," ","A","p","p","o","i","n","t","m","e","n","t"," ","C","r","i","t",
        "e","r","i","a"," ","a","n","d"," ","P","r","o","c","e","s","s"," ">>, 11),
    Entry("H3", <<"5","."," ","T","e","r","m"," ">>, 11),
    Entry("H3", <<"6","."," ","C","h","a","i","r"," ">>, 11),
    Entry("H3", <<"7","."," ","M","e","e","t","i","n","g","s"," ">>, 11),
    Entry("H3", <<"8","."," ","L","i","n","e","s"," ","o","f"," ","A","c","c","o","u","n","t",
        "a","b","i","l","i","t","y"," ","a","n","d"," ","C","o","m","m","u","n","i","c","a","t",
        "i","o","n"," ">>, 11),
    Entry("H3", <<"9","."," ","F","i","n","a","n","c","i","a","l"," ","a","n","d"," ","A","d",
        "m","i","n","i","s","t","r","a","t","i","v","e"," ","P","o","l","i","c","i","e","s"," ">>, 12),
    Entry("H2", <<"A","p","p","e","n","d","i","x"," ","C",":"," ","O","D","L","'","s"," ","E",
        "n","v","i","s","i","o","n","e","d"," ","E","l","e","c","t","r","o","n","i","c"," ","R",
        "e","s","o","u","r","c","e","s"," ">>, 13)
  >>

Outline_STEMPathways == <<
    Entry("H1", <<"P","A","T","H","W","A","Y"," ","O","P","T","I","O","N","S">>, 0)
  >>

Outline_HOPE == <<
    Entry("H1", <<"H","O","P","E"," ","T","o"," ","S","E","E"," ","Y","o","u"," ","T","H","E",
        "R","E","!"," ">>, 0)
  >>

DefaultBodyX0 == 90000
FontTolerance == 500
ListItemIndent == 15000
SubsectionIndent == 10000
AllCapsIndent == 20000
OutdentMargin == 5000

\* initial_body_x0: the most common x0 of body-size lines after page one
InitialBodyX0(ls, hdr, ftr, body) ==
    LET body_text_x0s_for_avg ==
            SelectSeq(ls, LAMBDA line :
                /\ line.page > 1
                /\ line.font_size = body
                /\ line.y \notin hdr
                /\ line.y \notin ftr
                /\ ~IsBareInteger(normalize(line.text)))
    IN IF Len(body_text_x0s_for_avg) > 0
       THEN MostCommon([i \in 1..Len(body_text_x0s_for_avg) |-> body_text_x0s_for_avg[i].x0])
       ELSE DefaultBodyX0

\* the filters at the head of the loop: TRUE when the line is skipped
IsFiltered(line, hdr, ftr, rep) ==
    LET text == normalize(line.text)
    IN \/ Len(text) < 3
       \/ ~AnyAlpha(text)
       \/ line.y \in hdr
       \/ line.y \in ftr
       \/ text \in rep
       \/ IsBareInteger(text)
       \/ IsRomanNumeral(text)

\* current_level_candidate: the level of the first significant size (largest
\* first) the line's size reaches within the tolerance, else H4 for a size
\* more than one unit above the body size, else None
FontLevelCandidate(font_size, levels, significant, body) ==
    LET sig == SortedDescending(Range(significant))
        hits == {i \in 1..Len(sig) : font_size >= sig[i] - FontTolerance}
        first == CHOOSE i \in hits : \A j \in hits : i <= j
        mapped == IF hits = {} THEN None
                  ELSE IF sig[first] \in DOMAIN levels THEN levels[sig[first]]
                  ELSE None
    IN IF mapped = None /\ font_size > body + 1000 THEN "H4" ELSE mapped

\* "If depth 1 and significantly indented": the `continue` of that branch is
\* inside the loop over NUMBERED_HEADING_REGEXES, so it goes on to the next
\* pattern of the list.
IsListItem(depth, x0, initial_body_x0) == depth = 1 /\ x0 > initial_body_x0 + ListItemIndent

\* The loop over NUMBERED_HEADING_REGEXES: the depth of the first pattern that
\* matches and is not passed over as a list item, 0 if the loop ends without a
\* heading.
MatchedDepth(text, x0, initial_body_x0) ==
    LET hits == {i \in 1..Len(NUMBERED_HEADING_REGEXES) :
                    /\ RegexMatches(text, NUMBERED_HEADING_REGEXES[i])
                    /\ ~IsListItem(NUMBERED_HEADING_REGEXES[i], x0, initial_body_x0)}
    IN IF hits = {} THEN 0
       ELSE NUMBERED_HEADING_REGEXES[CHOOSE i \in hits : \A j \in hits : i <= j]

\* "Default mapping based on depth"
DepthLevel(depth) == IF depth = 1 THEN "H3" ELSE IF depth = 2 THEN "H3" ELSE "H4"

\* Heuristic 1 for a line that matched at `depth`
NumberedLevel(depth, x0, initial_body_x0, candidate) ==
    LET demoted == IF /\ depth = 2
                      /\ x0 > initial_body_x0 + SubsectionIndent
                      /\ candidate \notin {"H1", "H2"}
                   THEN "H4" ELSE DepthLevel(depth)
    IN IF candidate # None /\ LevelRank(candidate) < LevelRank(demoted)
       THEN candidate ELSE demoted

\* the all-caps level without the test of the font size
AllCapsLevel_NoSizeTest(x0, font_size, initial_body_x0, body) ==
    IF x0 > initial_body_x0 + AllCapsIndent THEN "H3" ELSE "H2"

\* Heuristic 3
AllCapsLevel(x0, font_size, initial_body_x0, body) ==
    IF x0 > initial_body_x0 + AllCapsIndent THEN "H3"
    ELSE IF font_size < body + 2000 THEN "H3"
    ELSE "H2"

Str_Black == <<"B","l","a","c","k">>
Str_Heavy == <<"H","e","a","v","y">>

\* Heuristic 4: the level, or None when the line is no heading
IndentGapLevel(line, prev_line, text, font_size, initial_body_x0, body) ==
    IF prev_line # <<>> /\ line.page = prev_line[1].page
    THEN LET is_less_indented == line.x0 < initial_body_x0 - OutdentMargin
             is_large_vertical_gap == line.y - prev_line[1].y > body * 2
             is_bold == \/ Contains(line.font, Str_Bold)
                        \/ Contains(line.font, Str_Black)
                        \/ Contains(line.font, Str_Heavy)
         IN IF is_less_indented /\ is_large_vertical_gap /\ Len(text) > 5 /\ AnyAlpha(text)
            THEN IF is_bold /\ font_size > body THEN "H2"
                 ELSE IF is_bold THEN "H3"
                 ELSE "H4"
            ELSE None
    ELSE None

\* One pass of the body of "for line_idx, line in enumerate(lines)": the level
\* of the heading the line becomes, or None when no heading is appended.
\* prev_line is <<>> for Python's None and <<line>> otherwise;
\* ctx is [hdr, ftr, rep, levels, significant, body, x0].
ChainLevel(line, prev_line, seen, ctx) ==
    LET text == normalize(line.text)
        key == <<text, line.page, line.y, line.x0>>
        font_size == round2(line.font_size)
        candidate == FontLevelCandidate(font_size, ctx.levels, ctx.significant, ctx.body)
        depth == MatchedDepth(text, line.x0, ctx.x0)
    IN IF IsFiltered(line, ctx.hdr, ctx.ftr, ctx.rep) THEN None
       ELSE IF key \in seen THEN None
       ELSE IF depth > 0 THEN NumberedLevel(depth, line.x0, ctx.x0, candidate)
       ELSE IF candidate # None THEN candidate
       ELSE IF is_all_caps(text) THEN AllCapsLevel(line.x0, font_size, ctx.x0, ctx.body)
       ELSE IndentGapLevel(line, prev_line, text, font_size, ctx.x0, ctx.body)

\* the text of the appended heading: the numbering rule normalizes once more
ChainText(line, ctx) ==
    LET text == normalize(line.text)
    IN IF MatchedDepth(text, line.x0, ctx.x0) > 0 THEN normalize(text) ELSE text

Heading(level, text, line) ==
    [level |-> level, text |-> text, page |-> line.page,
     y |-> line.y, x0 |-> line.x0, font_size |-> line.font_size]

\* the whole loop over the sorted lines: the list `outline` and the set `seen`
\* it leaves, and for every line the level it was appended with (None when it
\* was not)
ChainLoop(ls, ctx) ==
    LET F[i \in 0..Len(ls)] ==
            IF i = 0 THEN [outline |-> <<>>, seen |-> {}, levels |-> <<>>]
            ELSE LET done == F[i - 1]
                     line == ls[i]
                     prev_line == IF i = 1 THEN <<>> ELSE <<ls[i - 1]>>
                     level == ChainLevel(line, prev_line, done.seen, ctx)
                 IN IF level = None THEN [done EXCEPT !.levels = Append(@, None)]
                    ELSE [outline |-> Append(done.outline,
                                             Heading(level, ChainText(line, ctx), line)),
                          seen |-> done.seen \cup
                                   {<<normalize(line.text), line.page, line.y, line.x0>>},
                          levels |-> Append(done.levels, level)]
    IN F[Len(ls)]

RunChain(ls, ctx) == ChainLoop(ls, ctx).outline

\* the condition of the inner while loop of the merge
MergeCandidate(current, next) ==
    /\ next.page = current.page
    /\ current.level = next.level
    /\ 2 * (next.y - current.y) < 3 * current.font_size
    /\ Abs(next.x0 - current.x0) < current.font_size

\* "the next line is short (continuation) and doesn't start a new sentence"
IsContinuation(text) == Len(split(text)) < 7 /\ ~StartsCapitalised(text)

\* the inner while loop: <<j, merged_text>> when it ends
RECURSIVE MergeExtent(_, _, _, _)
MergeExtent(ol, i, j, merged_text) ==
    IF j <= Len(ol) /\ MergeCandidate(ol[i], ol[j]) /\ IsContinuation(ol[j].text)
    THEN MergeExtent(ol, i, j + 1, merged_text \o <<" ">> \o ol[j].text)
    ELSE <<j, merged_text>>

\* "Post-processing: Merge sequential lines": final_outline from position i on
RECURSIVE MergeFrom(_, _)
MergeFrom(ol, i) ==
    IF i > Len(ol) THEN <<>>
    ELSE LET ext == MergeExtent(ol, i, i + 1, ol[i].text)
         IN <<[level |-> ol[i].level, text |-> normalize(ext[2]), page |-> ol[i].page,
               y |-> ol[i].y, x0 |-> ol[i].x0]>> \o MergeFrom(ol, ext[1])

MergeOutline(ol) == MergeFrom(ol, 1)

\* "Final pass: Dedup": the first entry of every (level, text, page) is kept
Dedup(final_outline) ==
    SelectSeq([i \in 1..Len(final_outline) |-> [item |-> final_outline[i], at |-> i]],
              LAMBDA e : \A j \in 1..(e.at - 1) :
                  <<final_outline[j].level, final_outline[j].text, final_outline[j].page>>
                    # <<e.item.level, e.item.text, e.item.page>>)

\* every heading kept, duplicates included
DedupOutline_KeepAll(final_outline) == final_outline

DedupOutline(final_outline) ==
    [i \in 1..Len(Dedup(final_outline)) |-> Dedup(final_outline)[i].item]

\* what the loop reads besides the line: the arguments of classify_headings
\* and initial_body_x0 (ls sorted)
Context(ls, hdr, ftr, rep, levels, significant, body) ==
    [hdr |-> hdr, ftr |-> ftr, rep |-> rep, levels |-> levels,
     significant |-> significant, body |-> body,
     x0 |-> InitialBodyX0(ls, hdr, ftr, body)]

\* final_outline: the loop's outline after the merge
FinalOutline(ls, hdr, ftr, rep, levels, significant, body) ==
    LET sorted == SortByPosition(ls)
    IN MergeOutline(RunChain(sorted, Context(sorted, hdr, ftr, rep, levels, significant, body)))

\* cleaned_outline after its sort, the entries still carrying y and x0
CleanedOutline(ls, hdr, ftr, rep, levels, significant, body) ==
    SortByPosition(DedupOutline(FinalOutline(ls, hdr, ftr, rep, levels, significant, body)))

\* item.pop("y"), item.pop("x0"), item.pop("font_size")
\* the entries with their transient fields left in
StripTransient_Skipped(ol) == ol

StripTransient(ol) == [i \in 1..Len(ol) |-> Entry(ol[i].level, ol[i].text, ol[i].page)]

\* first_page_text of classify_headings
FirstPageText(ls) ==
    LET first == SelectSeq(ls, LAMBDA l : l.page = 1)
    IN Join([i \in 1..Len(first) |-> normalize(first[i].text)], <<" ">>)

\* the document is one classify_headings answers from its table
HasFingerprint(ls) ==
    \/ Contains(FirstPageText(ls), Str_LTC)
    \/ Contains(FirstPageText(ls), Str_FoundationLevel)
    \/ Contains(FirstPageText(ls), Str_OntarioDigitalLibrary)
    \/ Contains(FirstPageText(ls), Str_STEMPathways)
    \/ Contains(FirstPageText(ls), Str_HOPE)

classify_headings(ls, hdr, ftr, rep, levels, significant, body) ==
    LET first_page_text == FirstPageText(ls)
    IN IF Contains(first_page_text, Str_LTC) THEN <<>>
       ELSE IF Contains(first_page_text, Str_FoundationLevel) THEN Outline_FoundationLevel
       ELSE IF Contains(first_page_text, Str_OntarioDigitalLibrary)
            THEN Outline_OntarioDigitalLibrary
       ELSE IF Contains(first_page_text, Str_STEMPathways) THEN Outline_STEMPathways
       ELSE IF Contains(first_page_text, Str_HOPE) THEN Outline_HOPE
       ELSE StripTransient(CleanedOutline(ls, hdr, ftr, rep, levels, significant, body))

-----------------------------------------------------------------------------
(* main(): the loop over INPUT_DIR *)

Str_DotPdf ==
    <<".","p","d","f">>
Str_DotJson ==
    <<".","j","s","o","n">>
Str_File03 ==
    <<"f","i","l","e","0","3",".","p","d","f">>

\* s.endswith(suffix)
EndsWith(s, suffix) ==
    Len(s) >= Len(suffix) /\ SubSeq(s, Len(s) - Len(suffix) + 1, Len(s)) = suffix

\* s.replace(old, new), from position i on
RECURSIVE ReplaceFrom(_, _, _, _)
ReplaceFrom(s, old, new, i) ==
    IF i > Len(s) THEN <<>>
    ELSE IF i + Len(old) - 1 <= Len(s) /\ SubSeq(s, i, i + Len(old) - 1) = old
         THEN new \o ReplaceFrom(s, old, new, i + Len(old))
         ELSE <<s[i]>> \o ReplaceFrom(s, old, new, i + 1)

\* filename.replace(".pdf", ".json")
OutputFilename(f) == ReplaceFrom(f, Str_DotPdf, Str_DotJson, 1)

\* max(line["page"] for line in lines) if lines else 1
\* the page count without the default of 1
TotalPages_NoDefault(ls) ==
    IF Len(ls) = 0 THEN 0
    ELSE CHOOSE p \in {ls[i].page : i \in 1..Len(ls)} : \A i \in 1..Len(ls) : ls[i].page <= p

TotalPages(ls) ==
    IF Len(ls) = 0 THEN 1
    ELSE CHOOSE p \in {ls[i].page : i \in 1..Len(ls)} : \A i \in 1..Len(ls) : ls[i].page <= p

\* What pdfplumber and the line reconstruction of extract_lines give for a
\* file: the lines, or no lines at all when the file cannot be opened or parsed
\* (pdfplumber.open raises).
Readable(ls) == [ok |-> TRUE, lines |-> ls]
Unreadable == [ok |-> FALSE, lines |-> <<>>]

\* if not os.path.exists(OUTPUT_DIR): os.makedirs(OUTPUT_DIR); os.listdir(INPUT_DIR)
MainStart ==
    /\ pc = "start"
    /\ pending' = DOMAIN input_dir
    /\ pc' = "loop"
    /\ UNCHANGED <<input_dir, filename, lines, total_pages, header_ys, footer_ys,
                   repeated_texts, font_levels, significant_font_sizes,
                   most_common_body_font_size, title, outline, output_dir,
                   norm_in, norm_once, norm_twice, page_chars>>

\* for filename in os.listdir(INPUT_DIR): if filename.endswith(".pdf"):
\* os.listdir gives the names in an arbitrary order.
NextFile ==
    /\ pc = "loop"
    /\ \E f \in pending :
        /\ pending' = pending \ {f}
        /\ filename' = f
        /\ pc' = IF EndsWith(f, Str_DotPdf) THEN "extract" ELSE "loop"
    /\ UNCHANGED <<input_dir, lines, total_pages, header_ys, footer_ys,
                   repeated_texts, font_levels, significant_font_sizes,
                   most_common_body_font_size, title, outline, output_dir,
                   norm_in, norm_once, norm_twice, page_chars>>

\* the loop is exhausted: main returns
MainReturn ==
    /\ pc = "loop"
    /\ pending = {}
    /\ pc' = "done"
    /\ UNCHANGED <<input_dir, pending, filename, lines, total_pages, header_ys, footer_ys,
                   repeated_texts, font_levels, significant_font_sizes,
                   most_common_body_font_size, title, outline, output_dir,
                   norm_in, norm_once, norm_twice, page_chars>>

\* lines = extract_lines(input_path); total_pages = ...
\* main has no try/except: an exception of extract_lines ends main.
ExtractLines ==
    /\ pc = "extract"
    /\ IF input_dir[filename].ok
       THEN /\ lines' = input_dir[filename].lines
            /\ total_pages' = TotalPages(input_dir[filename].lines)
            /\ pc' = "detect"
       ELSE /\ pc' = "raised"
            /\ UNCHANGED <<lines, total_pages>>
    /\ UNCHANGED <<input_dir, pending, filename, header_ys, footer_ys,
                   repeated_texts, font_levels, significant_font_sizes,
                   most_common_body_font_size, title, outline, output_dir,
                   norm_in, norm_once, norm_twice, page_chars>>

\* header_ys, footer_ys, repeated_texts = detect_headers_footers(lines, total_pages)
DetectHeadersFooters ==
    /\ pc = "detect"
    /\ LET r == detect_headers_footers(lines, total_pages)
       IN /\ header_ys' = r.header_ys
          /\ footer_ys' = r.footer_ys
          /\ repeated_texts' = r.repeated_texts
    /\ pc' = "fonts"
    /\ UNCHANGED <<input_dir, pending, filename, lines, total_pages,
                   font_levels, significant_font_sizes,
                   most_common_body_font_size, title, outline, output_dir,
                   norm_in, norm_once, norm_twice, page_chars>>

\* font_levels, significant_font_sizes, most_common_body_font_size = get_font_size_levels(lines)
GetFontSizeLevels ==
    /\ pc = "fonts"
    /\ LET r == get_font_size_levels(lines)
       IN /\ font_levels' = r.font_levels
          /\ significant_font_sizes' = r.significant_font_sizes
          /\ most_common_body_font_size' = r.most_common_body_font_size
    /\ pc' = "title"
    /\ UNCHANGED <<input_dir, pending, filename, lines, total_pages, header_ys, footer_ys,
                   repeated_texts, title, outline, output_dir,
                   norm_in, norm_once, norm_twice, page_chars>>

\* title = extract_title(...); if filename == "file03.pdf": title = "RFP:..."
ExtractTitle ==
    /\ pc = "title"
    /\ title' = IF filename = Str_File03 THEN Title_RFP
                ELSE extract_title(lines, header_ys, footer_ys, repeated_texts)
    /\ pc' = "classify"
    /\ UNCHANGED <<input_dir, pending, filename, lines, total_pages, header_ys, footer_ys,
                   repeated_texts, font_levels, significant_font_sizes,
                   most_common_body_font_size, outline, output_dir,
                   norm_in, norm_once, norm_twice, page_chars>>

\* outline = classify_headings(...), which sorts `lines` in place
ClassifyHeadings ==
    /\ pc = "classify"
    /\ outline' = classify_headings(lines, header_ys, footer_ys, repeated_texts, font_levels,
                                    significant_font_sizes, most_common_body_font_size)
    /\ lines' = SortByPosition(lines)
    /\ pc' = "write"
    /\ UNCHANGED <<input_dir, pending, filename, total_pages, header_ys, footer_ys,
                   repeated_texts, font_levels, significant_font_sizes,
                   most_common_body_font_size, title, output_dir,
                   norm_in, norm_once, norm_twice, page_chars>>

\* output_data = {"title": title, "outline": outline if outline else []}
OutputData(t, ol) == [title |-> t, outline |-> IF Len(ol) > 0 THEN ol ELSE <<>>]

\* json.dump(output_data, f) into OUTPUT_DIR/output_filename
WriteOutput ==
    /\ pc = "write"
    /\ output_dir' =
          [n \in DOMAIN output_dir \cup {OutputFilename(filename)} |->
              IF n = OutputFilename(filename) THEN OutputData(title, outline)
              ELSE output_dir[n]]
    /\ pc' = "loop"
    /\ UNCHANGED <<input_dir, pending, filename, lines, total_pages, header_ys, footer_ys,
                   repeated_texts, font_levels, significant_font_sizes,
                   most_common_body_font_size, title, outline,
                   norm_in, norm_once, norm_twice, page_chars>>

MainStep ==
    \/ MainStart
    \/ NextFile
    \/ MainReturn
    \/ ExtractLines
    \/ DetectHeadersFooters
    \/ GetFontSizeLevels
    \/ ExtractTitle
    \/ ClassifyHeadings
    \/ WriteOutput

-----------------------------------------------------------------------------
(* Documents: the lines the line reconstruction yields for the files of        *)
(* INPUT_DIR.  extract_lines emits the lines of a document page by page and,   *)
(* on a page, from top to bottom, each more than 0.5 below the one before; a   *)
(* line's text is stripped and non-empty and its font size positive.           *)

Line(text, font, font_size, x0, y, page) ==
    [text |-> text, font |-> font, font_size |-> font_size, x0 |-> x0, y |-> y, page |-> page]

Font_Times ==
    <<"T","i","m","e","s","-","R","o","m","a","n">>
Font_TimesBold ==
    <<"T","i","m","e","s","-","B","o","l","d">>
Font_ArialBlack ==
    <<"A","r","i","a","l","-","B","l","a","c","k">>
Font_ArialMT ==
    <<"A","r","i","a","l","M","T">>
Font_ArialMTBold ==
    <<"A","r","i","a","l","M","T",",","B","o","l","d">>
Font_ArialMTBoldItalic ==
    <<"A","r","i","a","l","M","T",",","B","o","l","d","I","t","a","l","i","c">>
Name_A ==
    <<"a",".","p","d","f">>
Name_B ==
    <<"b",".","p","d","f">>
Name_Notes ==
    <<"n","o","t","e","s",".","t","x","t">>
Text_Summary ==
    <<"S","u","m","m","a","r","y">>
Text_Intro ==
    <<"1","."," ","I","n","t","r","o">>
Text_Scope2 ==
    <<"1",".","2"," ","S","c","o","p","e">>
Text_Scope3 ==
    <<"1",".","2",".","3"," ","S","c","o","p","e">>
Text_Scope4 ==
    <<"1",".","2",".","3",".","4"," ","S","c","o","p","e">>
Text_ProjectOverview ==
    <<"P","R","O","J","E","C","T"," ","O","V","E","R","V","I","E","W">>
Text_Body ==
    <<"t","h","e"," ","b","o","d","y"," ","t","e","x","t">>
Text_AndMore ==
    <<"a","n","d"," ","m","o","r","e">>
Text_ClosingNotes ==
    <<"C","l","o","s","i","n","g"," ","n","o","t","e","s">>
Text_ZeroWidth ==
    <<"a","b"," ","zwsp"," ","c","d">>
Text_PageNumber ==
    <<"1","2">>
Text_RunningHead ==
    <<"R","u","n","n","i","n","g"," ","h","e","a","d">>
Text_Margin ==
    <<"M","a","r","g","i","n"," ","n","o","t","e">>
Text_Footer ==
    <<"F","o","o","t","e","r"," ","t","e","x","t">>
Text_Tiny ==
    <<"t","i","n","y"," ","n","o","t","e">>
Text_HeadingA ==
    <<"H","e","a","d","i","n","g"," ","A">>
Text_HeadingB ==
    <<"H","e","a","d","i","n","g"," ","B">>
Text_Chapter ==
    <<"C","h","a","p","t","e","r">>
Text_MainTitle ==
    <<"M","a","i","n"," ","T","i","t","l","e">>
Text_ToPresent ==
    <<"T","o"," ","P","r","e","s","e","n","t">>
Text_March ==
    <<"M","a","r","c","h"," ","2","1">>
Text_Background ==
    <<"B","a","c","k","g","r","o","u","n","d">>
Text_Timeline ==
    <<"1","."," ","T","i","m","e","l","i","n","e">>
Text_Library ==
    <<"D","i","g","i","t","a","l">>
Text_Critical ==
    <<"A"," ","C","r","i","t","i","c","a","l">>

\* Lines of the documents of the pipeline: texts of every rule of the chain,
\* at, right of and left of the baseline x0 = 90.
LinePool ==
    { Line(Text_Summary,         Font_ArialBlack, 32040,  90000,  60000, 1),
      Line(Text_Intro,           Font_ArialBlack, 32040, 120000,  60000, 1),
      Line(Text_ProjectOverview, Font_ArialBlack, 32040,  90000,  60000, 1),
      Line(Text_Intro,           Font_Times,      10000,  90000, 200000, 1),
      Line(Text_Scope3,          Font_Times,      10000,  90000, 230000, 1),
      Line(Str_STEMPathways,     Font_Times,      10000,  90000, 300000, 1),
      Line(Text_Body,            Font_Times,      10000,  90000,  80000, 2),
      Line(Text_Scope2,          Font_Times,      10000, 101000, 100000, 2),
      Line(Text_ProjectOverview, Font_Times,      10000,  90000, 130000, 2),
      Line(Text_ProjectOverview, Font_Times,      10000, 120000, 130000, 2),
      Line(Text_ProjectOverview, Font_Times,      11000,  90000, 130000, 2),
      Line(Text_Summary,         Font_Times,      14000,  90000, 160000, 2),
      Line(Text_AndMore,         Font_Times,      14000,  90000, 175000, 2),
      Line(Text_Scope4,          Font_Times,      10000,  90000, 300000, 2),
      Line(Text_Summary,         Font_Times,      14000,  90000, 400000, 2),
      Line(Text_ClosingNotes,    Font_TimesBold,  10000,  80000, 500000, 2),
      Line(Text_ZeroWidth,       Font_ArialBlack, 32040,  90000, 600000, 2),
      Line(Text_PageNumber,      Font_Times,      10000,  90000, 700000, 2) }

\* Lines of the documents of the header/footer analysis: a running head at
\* y = 50 on every page, and on pages 1 and 2 a line just above the top margin
\* (119.96 rounds to 120.0) and a line below the bottom margin.
HFPool ==
    { Line(Text_RunningHead, Font_Times, 10000, 90000, 50000, p) : p \in 1..MaxPagesHF }
    \cup { Line(Text_Margin, Font_Times, 10000, 90000, 119960, p) : p \in 1..2 }
    \cup { Line(Text_Footer, Font_Times, 10000, 90000, 700000, p) : p \in 1..2 }

\* Lines of the documents of the font hierarchy analysis: one page, a line per
\* font face and size.
FontPool ==
    { Line(Text_Background, Font_ArialBlack,        12000, 90000, 100000, 1),
      Line(Text_Body,       Font_Times,             12000, 90000, 140000, 1),
      Line(Text_Tiny,       Font_Times,              8000, 90000, 180000, 1),
      Line(Text_HeadingA,   Font_Times,             14000, 90000, 220000, 1),
      Line(Text_HeadingB,   Font_Times,             14000, 90000, 260000, 1),
      Line(Text_Chapter,    Font_Times,             18000, 90000, 300000, 1),
      Line(Text_MainTitle,  Font_ArialBlack,        32040, 90000, 340000, 1),
      Line(Text_ToPresent,  Font_ArialMT,           24000, 90000, 390000, 1),
      Line(Text_March,      Font_ArialMT,           20040, 90000, 430000, 1),
      Line(Text_Library,    Font_ArialBlack,        20040, 90000, 470000, 1),
      Line(Text_Critical,   Font_ArialMTBold,       15960, 90000, 510000, 1),
      Line(Text_Timeline,   Font_ArialMTBoldItalic, 11040, 90000, 550000, 1) }

\* extract_lines emits `line` after `last`
Follows(last, line) ==
    \/ line.page > last.page
    \/ line.page = last.page /\ round1(line.y) - round1(last.y) > 500

\* The document under construction gets one more line.
AppendLine(pool, limit) ==
    /\ pc = "setup"
    /\ \E line \in pool :
        LET doc == input_dir[Name_A].lines
        IN /\ Len(doc) < limit
           /\ Len(doc) > 0 => Follows(doc[Len(doc)], line)
           /\ input_dir' = [input_dir EXCEPT ![Name_A] = Readable(Append(doc, line))]
    /\ UNCHANGED <<pc, pending, filename, lines, total_pages, header_ys, footer_ys,
                   repeated_texts, font_levels, significant_font_sizes,
                   most_common_body_font_size, title, outline, output_dir,
                   norm_in, norm_once, norm_twice, page_chars>>

AddLine == AppendLine(LinePool, MaxLines)
AddLineHF == AppendLine(HFPool, MaxPagesHF + 4)
AddLineFont == AppendLine(FontPool, MaxFontLines)

\* The document is complete and main() is run on the directory.
RunMain ==
    /\ pc = "setup"
    /\ pc' = "start"
    /\ UNCHANGED <<input_dir, pending, filename, lines, total_pages, header_ys, footer_ys,
                   repeated_texts, font_levels, significant_font_sizes,
                   most_common_body_font_size, title, outline, output_dir,
                   norm_in, norm_once, norm_twice, page_chars>>

\* No pipeline variable is set before main() assigns it.
Unset ==
    /\ pending = {}
    /\ filename = <<>>
    /\ lines = <<>>
    /\ total_pages = 0
    /\ header_ys = {}
    /\ footer_ys = {}
    /\ repeated_texts = {}
    /\ font_levels = <<>>
    /\ significant_font_sizes = <<>>
    /\ most_common_body_font_size = 0
    /\ title = <<>>
    /\ outline = <<>>
    /\ output_dir = <<>>

NoNormalize == norm_in = <<>> /\ norm_once = <<>> /\ norm_twice = <<>>

NoChars == page_chars = <<>>

\* One document, a.pdf, built line by line and then processed by main().
Init ==
    /\ pc = "setup"
    /\ input_dir = [n \in {Name_A} |-> Readable(<<>>)]
    /\ Unset
    /\ NoNormalize
    /\ NoChars

Next == AddLine \/ RunMain \/ MainStep
Spec == Init /\ [][Next]_vars

NextHF == AddLineHF \/ RunMain \/ MainStep
SpecHF == Init /\ [][NextHF]_vars

NextFont == AddLineFont \/ RunMain \/ MainStep
SpecFont == Init /\ [][NextFont]_vars

-----------------------------------------------------------------------------
(* A batch: main() on a directory of several files. *)

\* Most files of the directory.
MaxFiles == 3

BatchNames == {Name_A, Name_B, Str_File03, Name_Notes}

\* What the line reconstruction yields for a file of the batch: nothing (the
\* file cannot be opened or parsed), no line, or one line.
BatchContents ==
    { Unreadable,
      Readable(<<>>),
      Readable(<<Line(Text_Summary, Font_ArialBlack, 32040, 90000, 60000, 1)>>) }

InitBatch ==
    /\ pc = "start"
    /\ \E present \in SUBSET BatchNames :
        /\ Cardinal(present) <= MaxFiles
        /\ input_dir \in [present -> BatchContents]
        /\ Name_Notes \in present => input_dir[Name_Notes] = Unreadable
    /\ Unset
    /\ NoNormalize
    /\ NoChars

SpecBatch == InitBatch /\ [][MainStep]_vars

-----------------------------------------------------------------------------
(* normalize applied to a text, and to its own result. *)

NormalizeAlphabet == {"a", " ", "nbsp", "zwsp", "rsquo"}

InitNormalize ==
    /\ pc = "normalize"
    /\ norm_in \in UNION {[1..n -> NormalizeAlphabet] : n \in 0..MaxLen}
    /\ norm_once = <<>>
    /\ norm_twice = <<>>
    /\ input_dir = <<>>
    /\ Unset
    /\ NoChars

NormalizeOnce ==
    /\ pc = "normalize"
    /\ norm_once' = normalize(norm_in)
    /\ pc' = "normalized"
    /\ UNCHANGED <<input_dir, pending, filename, lines, total_pages, header_ys, footer_ys,
                   repeated_texts, font_levels, significant_font_sizes,
                   most_common_body_font_size, title, outline, output_dir,
                   norm_in, norm_twice, page_chars>>

NormalizeAgain ==
    /\ pc = "normalized"
    /\ norm_twice' = normalize(norm_once)
    /\ pc' = "renormalized"
    /\ UNCHANGED <<input_dir, pending, filename, lines, total_pages, header_ys, footer_ys,
                   repeated_texts, font_levels, significant_font_sizes,
                   most_common_body_font_size, title, outline, output_dir,
                   norm_in, norm_once, page_chars>>

NextNormalize == NormalizeOnce \/ NormalizeAgain
SpecNormalize == InitNormalize /\ [][NextNormalize]_vars

-----------------------------------------------------------------------------
(* C1: normalize is idempotent: normalize(normalize(t)) = normalize(t) for      *)
(* every text t, also with spaces, non-breaking spaces and zero-width spaces   *)
(* next to each other or at the ends.                                          *)
C1_NormalizeIdempotent == pc = "renormalized" => norm_twice = norm_once

-----------------------------------------------------------------------------
(* Claims about the outline of one document (Spec, SpecFont, SpecHF). *)

\* the arguments main passes to classify_headings, once they are all computed
Classified == pc = "write"

LoopContext ==
    Context(lines, header_ys, footer_ys, repeated_texts, font_levels,
            significant_font_sizes, most_common_body_font_size)

LoopLevels == ChainLoop(lines, LoopContext).levels

MergedOutline ==
    FinalOutline(lines, header_ys, footer_ys, repeated_texts, font_levels,
                 significant_font_sizes, most_common_body_font_size)

SortedOutline ==
    CleanedOutline(lines, header_ys, footer_ys, repeated_texts, font_levels,
                   significant_font_sizes, most_common_body_font_size)

NoDuplicateTriples(ol) ==
    \A i, j \in 1..Len(ol) :
        i # j => <<ol[i].level, ol[i].text, ol[i].page>> # <<ol[j].level, ol[j].text, ol[j].page>>

InPositionOrder(ol) == \A i \in 1..(Len(ol) - 1) : KeyLeq(ol[i], ol[i + 1])

(* C2: when the heuristic chain runs (no fingerprint on page one), the outline *)
(* classify_headings returns has no two entries with the same (level, text,   *)
(* page), and its entries are in non-decreasing (page, y, x0) order of the     *)
(* coordinates they carried before the strip.                                  *)
C2_OutlineUniqueAndSorted ==
    (Classified /\ ~HasFingerprint(lines)) =>
        /\ NoDuplicateTriples(outline)
        /\ outline = StripTransient(SortedOutline)
        /\ InPositionOrder(SortedOutline)

\* two headings of the merged outline had the same triple, and one was dropped
C2_Witness ==
    /\ Classified
    /\ ~HasFingerprint(lines)
    /\ ~NoDuplicateTriples(MergedOutline)
    /\ Len(outline) >= 2
    /\ Len(outline) < Len(MergedOutline)

(* C3: the font-size-to-level map of get_font_size_levels is monotone (of two  *)
(* mapped sizes the larger has the level at least as strong, H1 strongest),    *)
(* also after the font-family overrides and the re-ranking, and it never maps  *)
(* more than four sizes.                                                       *)
C3_FontLevelsMonotone ==
    pc \in {"title", "classify", "write"} =>
        /\ \A s1, s2 \in DOMAIN font_levels :
              s1 > s2 => LevelRank(font_levels[s1]) <= LevelRank(font_levels[s2])
        /\ \A s \in DOMAIN font_levels : font_levels[s] \in Levels
        /\ Cardinal(DOMAIN font_levels) <= 4

\* a document with an override face and more than four significant sizes
C3_Witness ==
    /\ pc = "title"
    /\ Len(significant_font_sizes) > 4
    /\ Cardinal(DOMAIN font_levels) = 4
    /\ \E i \in 1..Len(lines) :
          /\ Contains(lines[i].font, Str_ArialMT)
          /\ lines[i].font_size = 20040
          /\ 20040 \in DOMAIN font_levels

(* C4: every entry of the outline classify_headings returns has a level that   *)
(* is one of H1..H4, never absent, and carries only the fields level, text and *)
(* page, also when the significant-size list has more than four sizes and one  *)
(* of them has no mapped level.                                                *)
C4_EntriesWellFormed ==
    Classified =>
        \A i \in 1..Len(outline) :
            /\ outline[i].level \in Levels
            /\ DOMAIN outline[i] = {"level", "text", "page"}

\* a line whose size is a significant size without a level became a heading
C4_Witness ==
    /\ Classified
    /\ ~HasFingerprint(lines)
    /\ \E i \in 1..Len(lines) :
          /\ round2(lines[i].font_size) \in Range(significant_font_sizes)
          /\ round2(lines[i].font_size) \notin DOMAIN font_levels
          /\ FontLevelCandidate(round2(lines[i].font_size), font_levels,
                                significant_font_sizes, most_common_body_font_size) = None
          /\ LoopLevels[i] \in Levels
          /\ \E k \in 1..Len(outline) : outline[k].text = normalize(lines[i].text)

\* the pages on which a line has the rounded y-coordinate y
PagesAt(y) == {lines[i].page : i \in {j \in 1..Len(lines) : round1(lines[j].y) = y}}
RoundedYs == {round1(lines[i].y) : i \in 1..Len(lines)}
\* ceil(max(2, 0.6 * n))
CeilThreshold(n) == Max(2, (6 * n + 9) \div 10)

(* C8: a rounded y-coordinate is a header coordinate exactly when it occurs on *)
(* at least ceil(max(2, 0.6 x totalPages)) distinct pages and is below 120, a  *)
(* footer coordinate exactly when it meets the same page count and is above    *)
(* 650; none is both; y = 50 on every page of a 10-page document is a header   *)
(* coordinate; a coordinate seen on one page only is neither.                  *)
C8_HeaderFooterExact ==
    pc \in {"fonts", "title", "classify", "write"} =>
        /\ header_ys = {y \in RoundedYs :
                          Cardinal(PagesAt(y)) >= CeilThreshold(total_pages) /\ y < 120000}
        /\ footer_ys = {y \in RoundedYs :
                          Cardinal(PagesAt(y)) >= CeilThreshold(total_pages) /\ y > 650000}
        /\ header_ys \cap footer_ys = {}
        /\ (total_pages = 10 /\ PagesAt(50000) = 1..10) => 50000 \in header_ys
        /\ \A y \in RoundedYs : Cardinal(PagesAt(y)) = 1 => y \notin header_ys \cup footer_ys

\* the 10-page document with y = 50 on every page, whose lines at y = 700 on
\* two pages are too few for a footer
C8_Witness ==
    /\ pc = "fonts"
    /\ total_pages = 10
    /\ PagesAt(50000) = 1..10
    /\ 50000 \in header_ys
    /\ Cardinal(PagesAt(700000)) = 2
    /\ footer_ys = {}

(* C9: a document of a single candidate line (it passes the filters, no        *)
(* fingerprint) whose font size equals the top significant size yields an      *)
(* outline of exactly one entry, of level H1 and with the line's normalized    *)
(* text, whichever rule of the chain the text would match.                     *)
C9_SingleLineRoundTrip ==
    ( /\ Classified
      /\ Len(lines) = 1
      /\ ~HasFingerprint(lines)
      /\ ~IsFiltered(lines[1], header_ys, footer_ys, repeated_texts)
      /\ Len(significant_font_sizes) > 0
      /\ round2(lines[1].font_size) = significant_font_sizes[1] )
    => outline = <<Entry("H1", normalize(lines[1].text), lines[1].page)>>

\* the deepest pattern of NUMBERED_HEADING_REGEXES that matches: the number of
\* numerals of the dotted prefix of the text (0 without one)
PrefixDepth(text) ==
    LET hits == {d \in 1..4 : RegexMatches(text, d)}
    IN IF hits = {} THEN 0 ELSE CHOOSE d \in hits : \A e \in hits : e <= d

(* C10: a candidate line at the baseline indentation with no font-implied      *)
(* level, whose text starts with a dotted-numeral prefix of depth d, is        *)
(* emitted with level H3 when d is 1 or 2 and with level H4 when d is 3 or 4.  *)
C10_LevelByDepth ==
    (Classified /\ ~HasFingerprint(lines)) =>
        \A i \in 1..Len(lines) :
            LET d == PrefixDepth(normalize(lines[i].text))
            IN ( /\ d > 0
                 /\ ~IsFiltered(lines[i], header_ys, footer_ys, repeated_texts)
                 /\ lines[i].x0 = LoopContext.x0
                 /\ FontLevelCandidate(round2(lines[i].font_size), font_levels,
                                       significant_font_sizes,
                                       most_common_body_font_size) = None )
               => LoopLevels[i] = (IF d <= 2 THEN "H3" ELSE "H4")

-----------------------------------------------------------------------------
(* C7: locality. *)

\* the whole pipeline on the lines ls: for every line of SortByPosition(ls)
\* the level the loop appends it with, None for a line it rejects
PipelineLevels(ls) ==
    LET hf == detect_headers_footers(ls, TotalPages(ls))
        fo == get_font_size_levels(ls)
        sorted == SortByPosition(ls)
    IN ChainLoop(sorted,
                 Context(sorted, hf.header_ys, hf.footer_ys, hf.repeated_texts,
                         fo.font_levels, fo.significant_font_sizes,
                         fo.most_common_body_font_size)).levels

\* ls without its i-th line
Without(ls, i) == SubSeq(ls, 1, i - 1) \o SubSeq(ls, i + 1, Len(ls))

(* C7: for a line l that is neither on a header/footer coordinate nor          *)
(* boilerplate, the pipeline run on the document without l gives every other   *)
(* line the classification (the level, or the rejection) it has in the full    *)
(* document.                                                                   *)
C7_Locality ==
    (Classified /\ ~HasFingerprint(lines)) =>
        \A i \in 1..Len(lines) :
            ( /\ round1(lines[i].y) \notin header_ys \cup footer_ys
              /\ lines[i].y \notin header_ys \cup footer_ys
              /\ normalize(lines[i].text) \notin repeated_texts
              /\ ~HasFingerprint(Without(lines, i)) )
            => \A j \in 1..(Len(lines) - 1) :
                   PipelineLevels(Without(lines, i))[j]
                     = PipelineLevels(lines)[IF j < i THEN j ELSE j + 1]

-----------------------------------------------------------------------------
(* Claims about a batch (SpecBatch). *)

IsPdf(f) == EndsWith(f, Str_DotPdf)

\* main() has ended: it returned, or an exception left it
Ended == pc \in {"done", "raised"}

(* C5: if the character-stream collaborator fails to open or parse one         *)
(* document of a batch, every other document of the input directory is still   *)
(* processed and gets its output record written, whatever the order in which   *)
(* the documents are visited.                                                  *)
C5_FailureIsolated ==
    (Ended /\ \E f \in DOMAIN input_dir : IsPdf(f) /\ ~input_dir[f].ok) =>
        \A f \in DOMAIN input_dir :
            (IsPdf(f) /\ input_dir[f].ok) => OutputFilename(f) \in DOMAIN output_dir

\* the document being processed yields no lines
EmptyDocument == input_dir[filename].ok /\ input_dir[filename].lines = <<>>

\* the stages' results for a document without lines, but for the title
EmptyDefaults ==
    /\ total_pages = 1
    /\ header_ys = {}
    /\ footer_ys = {}
    /\ repeated_texts = {}
    /\ DOMAIN font_levels = {}
    /\ significant_font_sizes = <<>>
    /\ most_common_body_font_size = 10000
    /\ outline = <<>>

Written(f) == OutputFilename(f) \in DOMAIN output_dir

(* C6 as amended: a document that yields no lines does not fail the pipeline:  *)
(* the page count is 1, every stage returns its default, the outline of the    *)
(* record written is an empty sequence, and the title is the empty string      *)
(* unless the file is named file03.pdf, whose title main() sets to the fixed   *)
(* RFP title.                                                                  *)
C6_EmptyDocumentDefaults ==
    /\ (pc = "write" /\ EmptyDocument) =>
          /\ EmptyDefaults
          /\ title = IF filename = Str_File03 THEN Title_RFP ELSE <<>>
    /\ (pc = "raised") => ~input_dir[filename].ok
    /\ \A f \in DOMAIN input_dir :
          (Written(f) /\ input_dir[f] = Readable(<<>>)) =>
              output_dir[OutputFilename(f)] =
                  [title |-> IF f = Str_File03 THEN Title_RFP ELSE <<>>, outline |-> <<>>]

\* the record of an empty document has been written
C6_Witness ==
    /\ pc = "loop"
    /\ filename \in DOMAIN input_dir
    /\ EmptyDocument
    /\ filename # Str_File03
    /\ Written(filename)
    /\ output_dir[OutputFilename(filename)] = [title |-> <<>>, outline |-> <<>>]

(* C6: when a document yields no lines the page count is 1, every stage        *)
(* returns its default, the title is the empty string and the outline of the   *)
(* output record is an empty sequence.                                         *)
C6_EmptyDocumentEmptyTitle ==
    (pc = "write" /\ EmptyDocument) => (EmptyDefaults /\ title = <<>>)

-----------------------------------------------------------------------------
(* Claims about the rules of the chain (Spec). *)

(* C11: a line whose text matches the depth-1 numbering pattern and whose x0   *)
(* is more than 15 units past the baseline is discarded as a list item: no     *)
(* rule of the chain emits it, whatever its font size or letter case.          *)
C11_ListItemDiscarded ==
    (Classified /\ ~HasFingerprint(lines)) =>
        \A i \in 1..Len(lines) :
            ( /\ RegexMatches(normalize(lines[i].text), 1)
              /\ lines[i].x0 > LoopContext.x0 + ListItemIndent )
            => LoopLevels[i] = None

-----------------------------------------------------------------------------
(* Documents for the header/footer filter of the chain (SpecFilter). *)

\* Most lines of a document built for the header/footer filter.
MaxFilterLines == 4

\* Lines of two pages at the top and at the bottom of the page, with a y that
\* is a multiple of 0.1 (50.0) and with one that is not (50.04 and 700.04
\* round to 50.0 and 700.0), of different texts so that none is boilerplate,
\* and a body line per page.
FilterPool ==
    { Line(Text_ProjectOverview, Font_Times, 10000, 90000,  50040, 1),
      Line(Text_Intro,           Font_Times, 10000, 90000,  50040, 2),
      Line(Text_ProjectOverview, Font_Times, 10000, 90000,  50000, 1),
      Line(Text_Intro,           Font_Times, 10000, 90000,  50000, 2),
      Line(Text_Body,            Font_Times, 10000, 90000, 200000, 1),
      Line(Text_AndMore,         Font_Times, 10000, 90000, 200000, 2),
      Line(Text_Scope3,          Font_Times, 10000, 90000, 700040, 1),
      Line(Text_Scope4,          Font_Times, 10000, 90000, 700040, 2) }

AddLineFilter == AppendLine(FilterPool, MaxFilterLines)

NextFilter == AddLineFilter \/ RunMain \/ MainStep
SpecFilter == Init /\ [][NextFilter]_vars

(* C12: a line whose rounded y-coordinate detect_headers_footers has put in    *)
(* the header or the footer set is never a heading candidate: the chain emits  *)
(* no entry from it, also when its y is not a multiple of 0.1, whichever rule  *)
(* its text or font would match.                                               *)
C12_HeaderFooterLinesFiltered ==
    (Classified /\ ~HasFingerprint(lines)) =>
        \A i \in 1..Len(lines) :
            round1(lines[i].y) \in header_ys \cup footer_ys => LoopLevels[i] = None

-----------------------------------------------------------------------------
(* Claims about the font hierarchy overrides (SpecFont). *)

\* the document has a line of a face whose name contains `family`, of size `size`
HasFace(family, size) ==
    \E i \in 1..Len(lines) :
        Contains(lines[i].font, family) /\ round2(lines[i].font_size) = size

(* C13: the overrides take precedence over the general ranking: in a document  *)
(* with an ArialMT line of size 20.04 (and no Arial-Black line of that size,   *)
(* which another override pins) the returned map gives 20.04 the pinned level  *)
(* H3, and in a document with an Arial-Black line of size 12.0 it gives 12.0   *)
(* the level H2 or H1, whatever other font sizes the document contains.        *)
C13_OverridesTakePrecedence ==
    pc \in {"title", "classify", "write"} =>
        /\ (HasFace(Str_ArialMT, 20040) /\ ~HasFace(Str_ArialBlack, 20040)) =>
              (20040 \in DOMAIN font_levels /\ font_levels[20040] = "H3")
        /\ HasFace(Str_ArialBlack, 12000) =>
              (12000 \in DOMAIN font_levels /\ font_levels[12000] \in {"H1", "H2"})

-----------------------------------------------------------------------------
(* Documents for the title post-clean (SpecTitle). *)

\* Most lines of a document built for the title post-clean.
MaxTitleLines == 3

Text_LabelLabel == <<"N","o"," ",":"," ","N","o">>
Text_Phrase == <<"a","b"," ","c","d"," ","e","f">>
Text_DoubledLabel == <<"N","N","o","o"," ",":"," ","N","o">>
Text_PlainTitle == <<"P","l","a","i","n"," ","t","i","t","l","e">>

\* Title lines of the first page, of one size and left edge, close enough to be
\* merged: a "Label : Label" text twice, a three-word phrase twice, a label
\* with doubled characters, and a plain title; and a body line.
TitlePool ==
    { Line(Text_LabelLabel,   Font_Times, 20000, 90000, 100000, 1),
      Line(Text_Phrase,       Font_Times, 20000, 90000, 100000, 1),
      Line(Text_LabelLabel,   Font_Times, 20000, 90000, 125000, 1),
      Line(Text_Phrase,       Font_Times, 20000, 90000, 125000, 1),
      Line(Text_DoubledLabel, Font_Times, 20000, 90000, 150000, 1),
      Line(Text_PlainTitle,   Font_Times, 20000, 90000, 150000, 1),
      Line(Text_Body,         Font_Times, 10000, 90000, 300000, 1) }

AddLineTitle == AppendLine(TitlePool, MaxTitleLines)

NextTitle == AddLineTitle \/ RunMain \/ MainStep
SpecTitle == Init /\ [][NextTitle]_vars

\* extract_title has assembled a title from the lines and post-cleaned it
TitleAssembled ==
    /\ pc = "classify"
    /\ Len(PotentialTitleLines(lines, header_ys, footer_ys, repeated_texts)) > 0
    /\ title = clean_doubled_text_aggressive(
                   AssembledTitle(lines, header_ys, footer_ys, repeated_texts))

\* the assembled title after the doubled-character collapse
UndoubledTitle ==
    CollapseDoubledChars(
        normalize(AssembledTitle(lines, header_ys, footer_ys, repeated_texts)), 1)

(* C14: the post-clean applies at most one of the two repetition repairs to an *)
(* assembled title: after the doubled-character collapse, the title is never   *)
(* collapsed to its first half and then collapsed again to the label before    *)
(* its first colon.                                                            *)
C14_AtMostOneRepair ==
    TitleAssembled =>
        ~(HalvesRepeat(UndoubledTitle) /\ LabelRepeats(FirstHalf(UndoubledTitle)))

-----------------------------------------------------------------------------
(* Step 1: extract_lines, the reconstruction of the lines of a page from its   *)
(* characters (SpecChars).                                                     *)

\* a character of page.chars
Char(text, fontname, size, x0, width, top) ==
    [text |-> text, fontname |-> fontname, size |-> size, x0 |-> x0,
     width |-> width, top |-> top]

\* chars.sort(key=lambda c: (round(c["top"], 1), c["x0"])): stable
SortChars(chars) ==
    LET Leq(a, b) == \/ round1(a.top) < round1(b.top)
                     \/ (round1(a.top) = round1(b.top) /\ a.x0 <= b.x0)
        Insert(acc, e) ==
            LET k == Cardinal({i \in 1..Len(acc) : Leq(acc[i], e)})
            IN SubSeq(acc, 1, k) \o <<e>> \o SubSeq(acc, k + 1, Len(acc))
        F[i \in 0..Len(chars)] ==
            IF i = 0 THEN <<>> ELSE LET sorted == F[i - 1] IN Insert(sorted, chars[i])
    IN F[Len(chars)]

\* The values current_line_chars has when a line is completed: the runs of the
\* sorted characters, a new run starting where the rounded top is more than
\* 0.5 from that of the character before.
CharGroups(chars) ==
    LET sorted == SortChars(chars)
        F[i \in 0..Len(sorted)] ==
            IF i = 0 THEN <<>>
            ELSE LET groups == F[i - 1]
                 IN IF i = 1 \/ Abs(round1(sorted[i].top) - round1(sorted[i - 1].top)) > 500
                    THEN Append(groups, <<sorted[i]>>)
                    ELSE [groups EXCEPT ![Len(groups)] = Append(@, sorted[i])]
    IN F[Len(sorted)]

\* line_text of a completed line: the texts of its characters, with a space
\* before a character that starts more than half its width after the end of
\* the one before, unless the text so far is blank
LineText(current_line_chars) ==
    LET F[i \in 0..Len(current_line_chars)] ==
            IF i = 0 THEN <<>>
            ELSE LET line_text == F[i - 1]
                     lc == current_line_chars[i]
                     prev == current_line_chars[i - 1]
                     gap == lc.x0 - (prev.x0 + prev.width)
                 IN IF i > 1 /\ 2 * gap > lc.width /\ Len(strip(line_text)) > 0
                    THEN line_text \o <<" ">> \o lc.text
                    ELSE line_text \o lc.text
    IN F[Len(current_line_chars)]

\* if line_text.strip() and current_line_chars[0].get("size", 0) > 0
EmitsLine(current_line_chars) ==
    /\ Len(strip(LineText(current_line_chars))) > 0
    /\ current_line_chars[1].size > 0

\* the dict appended to lines
LineOfChars(current_line_chars, page) ==
    Line(strip(LineText(current_line_chars)), current_line_chars[1].fontname,
         current_line_chars[1].size, current_line_chars[1].x0,
         current_line_chars[1].top, page)

\* the runs of characters that become lines
EmittedGroups(chars) == SelectSeq(CharGroups(chars), EmitsLine)

\* the lines extract_lines appends for page number `page` with characters `chars`
ExtractPageLines(chars, page) ==
    [k \in 1..Len(EmittedGroups(chars)) |-> LineOfChars(EmittedGroups(chars)[k], page)]

\* Most characters of the page.
MaxChars == 3

\* Characters of a page: two vertical bands (top 100.0 and 120.0), in the first
\* three horizontal positions, the last after a gap; a letter or a space, of a
\* positive size or of size 0.
CharPool ==
    { Char(<<t>>, Font_Times, s, x, 6000, 100000) :
        t \in {"a", " "}, s \in {12000, 0}, x \in {10000, 16000, 30000} }
    \cup { Char(<<"b">>, Font_Times, s, 10000, 6000, 120000) : s \in {12000, 0} }

InitChars ==
    /\ pc = "chars"
    /\ page_chars \in UNION {[1..n -> CharPool] : n \in 0..MaxChars}
    /\ input_dir = <<>>
    /\ Unset
    /\ NoNormalize

\* the body of "for i, page in enumerate(pdf.pages, start=1)" for the first page
ReconstructLines ==
    /\ pc = "chars"
    /\ lines' = ExtractPageLines(page_chars, 1)
    /\ pc' = "reconstructed"
    /\ UNCHANGED <<input_dir, pending, filename, total_pages, header_ys, footer_ys,
                   repeated_texts, font_levels, significant_font_sizes,
                   most_common_body_font_size, title, outline, output_dir,
                   norm_in, norm_once, norm_twice, page_chars>>

SpecChars == InitChars /\ [][ReconstructLines]_vars

(* C15: line reconstruction discards every character whose font size is not    *)
(* positive: no emitted line is built from such a character (with a text that  *)
(* is not blank), be it the first of its vertical band or a later one, and the *)
(* font size of every emitted line is positive.                                *)
C15_NonPositiveCharsDiscarded ==
    pc = "reconstructed" =>
        /\ \A k \in 1..Len(EmittedGroups(page_chars)) :
              \A j \in 1..Len(EmittedGroups(page_chars)[k]) :
                  LET c == EmittedGroups(page_chars)[k][j]
                  IN IsSpace(c.text[1]) \/ c.size > 0
        /\ \A k \in 1..Len(lines) : lines[k].font_size > 0

-----------------------------------------------------------------------------
(* Claims about the levels of the numbering and all-caps rules (Spec). *)

\* the font-implied level of line i of the sorted document (None without one)
FontImplied(i) ==
    FontLevelCandidate(round2(lines[i].font_size), font_levels, significant_font_sizes,
                       most_common_body_font_size)

\* line i is emitted by the numbering rule
EmittedByNumbering(i) ==
    /\ LoopLevels[i] # None
    /\ MatchedDepth(normalize(lines[i].text), lines[i].x0, LoopContext.x0) > 0

\* the numbering-implied level of line i: H3 for a prefix of depth 1 or 2, H4
\* for depth 3 or 4, and H4 for a depth-2 line more than 10 units past the
\* baseline whose font-implied level is not H1 or H2
NumberingImplied(i) ==
    LET d == PrefixDepth(normalize(lines[i].text))
    IN IF d = 2 /\ lines[i].x0 > LoopContext.x0 + 10000 /\ FontImplied(i) \notin {"H1", "H2"}
       THEN "H4"
       ELSE IF d <= 2 THEN "H3" ELSE "H4"

\* the stronger of the level a and the level or None b
Stronger(a, b) == IF b # None /\ LevelRank(b) < LevelRank(a) THEN b ELSE a

(* C16: the level of every line the numbering rule emits is the stronger of    *)
(* its numbering-implied level (after the indentation demotion) and its        *)
(* font-implied level when it has one; it is never weaker than the             *)
(* font-implied level; and a depth-2 line whose font-implied level is H1 or H2 *)
(* is not demoted to H4 by its indentation.                                    *)
C16_FontOverridesNumbering ==
    (Classified /\ ~HasFingerprint(lines)) =>
        \A i \in 1..Len(lines) :
            EmittedByNumbering(i) =>
                /\ LoopLevels[i] = Stronger(NumberingImplied(i), FontImplied(i))
                /\ FontImplied(i) # None =>
                      LevelRank(LoopLevels[i]) <= LevelRank(FontImplied(i))
                /\ (PrefixDepth(normalize(lines[i].text)) = 2
                      /\ FontImplied(i) \in {"H1", "H2"}) => LoopLevels[i] # "H4"

\* line i is emitted by the all-caps rule
EmittedByAllCaps(i) ==
    /\ LoopLevels[i] # None
    /\ MatchedDepth(normalize(lines[i].text), lines[i].x0, LoopContext.x0) = 0
    /\ FontImplied(i) = None
    /\ is_all_caps(normalize(lines[i].text))

(* C17: the all-caps rule only ever emits level H3: a line that reaches it has *)
(* no font-implied level, so its size is below body size + 2, and the H2 base  *)
(* level of the rule is never the level of an emitted heading, for any         *)
(* indentation.                                                                *)
C17_AllCapsOnlyH3 ==
    (Classified /\ ~HasFingerprint(lines)) =>
        \A i \in 1..Len(lines) :
            EmittedByAllCaps(i) =>
                /\ LoopLevels[i] = "H3"
                /\ round2(lines[i].font_size) < most_common_body_font_size + 2000

\* the all-caps rule has emitted, as H3, a line at most 20 units past the
\* baseline whose size is above the body size
C17_Witness ==
    /\ Classified
    /\ ~HasFingerprint(lines)
    /\ \E i \in 1..Len(lines) :
          /\ EmittedByAllCaps(i)
          /\ lines[i].x0 <= LoopContext.x0 + AllCapsIndent
          /\ round2(lines[i].font_size) > most_common_body_font_size
          /\ \E k \in 1..Len(outline) :
                outline[k] = Entry("H3", normalize(lines[i].text), lines[i].page)

=============================================================================
